---- MODULE Spec2Model ----
(***************************************************************************)
(* Model of zerver/webhooks/gogs/view.py: the Gogs webhook receiver.       *)
(*                                                                         *)
(* One request is handled at a time, start to finish (gogs_webhook_main);  *)
(* the position inside gogs_webhook_main is the variable pc, named after   *)
(* the source line about to run.  Formatters and handlers are pure         *)
(* functions of the payload and the Helper and are operators here.         *)
(*                                                                         *)
(* Conventions                                                             *)
(*  - An Optional value (Python's `X | None`) is a set: None is {} and a   *)
(*    present value v is {v}.                                              *)
(*  - A payload (WildValue) is a function from flattened paths            *)
(*    ("pull_request.title") to values; a path that is missing, or holds   *)
(*    a value of the wrong type, is not in its DOMAIN, and tame() on it    *)
(*    raises ValidationError.                                              *)
(*  - The git ref is a sequence of tokens ("refs", "/", "heads", ...), so  *)
(*    that str.replace is computed and not assumed.  Other strings are     *)
(*    TLA+ strings.                                                        *)
(*  - A rendered message body or topic is the record of the template and   *)
(*    of the values put into its slots.                                    *)
(***************************************************************************)
EXTENDS Integers, Sequences, FiniteSets, TLC

VARIABLES
    pc,            \* position in gogs_webhook_main ("idle": no request in flight)
    request,       \* the request in flight: headers, payload, branches, user_specified_topic
    repo,          \* local `repo` (Optional: not yet assigned = None)
    event,         \* local `event`
    event_type,    \* local `event_type`
    helper,        \* local `helper` (Optional Helper record)
    handler,       \* local `handler` (Optional handler name)
    result,        \* what handler(helper) did: raised, topic_name, body, calls, reads
    sent,          \* the calls made to check_send_webhook_message for this request
    response       \* "" while running, "json_success", or the name of the exception raised

vars == <<pc, request, repo, event, event_type, helper, handler, result, sent, response>>

-----------------------------------------------------------------------------
(* Optional values *)

None == {}
Some(v) == {v}
The(o) == CHOOSE v \in o : TRUE

(* Bound of the model: a ref is the concatenation of at most this many parts. *)
MaxRefParts == 3

-----------------------------------------------------------------------------
(* Strings as token sequences: the ref *)

RefsHeads == <<"refs", "/", "heads", "/">>

RefParts == {RefsHeads, <<"main">>}

RECURSIVE RefsOfParts(_)
RefsOfParts(n) ==
    IF n = 0 THEN {<<>>}
    ELSE LET shorter == RefsOfParts(n - 1)
         IN  shorter \cup {r \o p : r \in shorter, p \in RefParts}

Refs == RefsOfParts(MaxRefParts)

(* Python's str.replace(old, new): every non-overlapping occurrence of old,
   scanning from the left, is replaced. *)
RECURSIVE Replace(_, _, _)
Replace(s, old, new) ==
    IF Len(s) < Len(old) THEN s
    ELSE IF SubSeq(s, 1, Len(old)) = old
         THEN new \o Replace(SubSeq(s, Len(old) + 1, Len(s)), old, new)
         ELSE <<Head(s)>> \o Replace(Tail(s), old, new)

(* Python's str.removeprefix(prefix): what "strip a leading prefix" means. *)
RemovePrefix(s, prefix) ==
    IF Len(s) >= Len(prefix) /\ SubSeq(s, 1, Len(prefix)) = prefix
    THEN SubSeq(s, Len(prefix) + 1, Len(s))
    ELSE s

-----------------------------------------------------------------------------
(* Results of calls that may raise *)

Returned(v) == [raised |-> "", value |-> Some(v)]
Raised(e) == [raised |-> e, value |-> None]

(* WildValue: payload[path].tame(check_string) succeeds iff the path is present
   with the expected type. *)
Has(payload, path) == path \in DOMAIN payload

-----------------------------------------------------------------------------
(* Collaborators outside view.py: zerver/lib/webhooks/git.py and
   zerver/lib/webhooks/common.py *)

(* The branch allow-list: None lets every branch pass; otherwise the branch
   must be one of the listed names. *)
is_branch_name_notifiable(branch, branches) ==
    branches = None \/ \E i \in 1..Len(The(branches)) : The(branches)[i] = branch

(* "{repo} / {branch}" *)
TOPIC_WITH_BRANCH_TEMPLATE(repo_, branch) ==
    [template |-> "{repo} / {branch}", repo |-> repo_, branch |-> branch]

(* "{repo} / {type} #{id} {title}" *)
TOPIC_WITH_PR_OR_ISSUE_INFO_TEMPLATE(repo_, type, id, title) ==
    [template |-> "{repo} / {type} #{id} {title}",
     repo |-> repo_, type |-> type, id |-> id, title |-> title]

(* "{repo} / {tag} {title}" *)
TOPIC_WITH_RELEASE_TEMPLATE(repo_, tag, title) ==
    [template |-> "{repo} / {tag} {title}", repo |-> repo_, tag |-> tag, title |-> title]

get_push_commits_event_message(user_name, compare_url, branch_name, commits_data) ==
    [template |-> "push_commits", user_name |-> user_name, compare_url |-> compare_url,
     branch_name |-> branch_name, commits_data |-> commits_data]

get_create_branch_event_message(user_name, url, branch_name) ==
    [template |-> "create_branch", user_name |-> user_name, url |-> url,
     branch_name |-> branch_name]

(* The title slot of the rendered message is filled iff title is not None. *)
get_pull_request_event_message(user_name, action, url, number, target_branch, base_branch, message, assignee_updated, type, title) ==
    [template |-> IF title # None THEN "pull_request_or_issue_with_title"
                  ELSE "pull_request_or_issue",
     user_name |-> user_name, action |-> action, url |-> url, number |-> number,
     target_branch |-> target_branch, base_branch |-> base_branch,
     message |-> message, assignee_updated |-> assignee_updated,
     type |-> type, title |-> title]

(* get_issue_event_message is get_pull_request_event_message with type "issue". *)
get_issue_event_message(user_name, action, url, number, message, assignee, title, assignee_updated) ==
    get_pull_request_event_message(user_name, action, url, number, None, None,
                                   message, assignee_updated, "issue", title)

get_release_event_message(user_name, action, tagname, release_name, url) ==
    [template |-> "release", user_name |-> user_name, action |-> action,
     tagname |-> tagname, release_name |-> release_name, url |-> url]

(* validate_extract_webhook_http_header: the header's value, or
   MissingHTTPEventHeaderError when the request does not carry it. *)
validate_extract_webhook_http_header(req, header) ==
    IF header \in DOMAIN req.headers
    THEN Returned(req.headers[header])
    ELSE Raised("MissingHTTPEventHeaderError")

-----------------------------------------------------------------------------
(* view.py: formatters *)

get_issue_url(repo_url, issue_nr) ==
    [repo_url |-> repo_url, path |-> "/issues/", issue_nr |-> issue_nr]

(* name = author.username or author.name.split()[0]; the author's name is kept
   as the list of its words, and [0] of an empty list raises IndexError. *)
CommitName(commit) ==
    IF commit.author_username # "" THEN Returned(commit.author_username)
    ELSE IF commit.author_name = <<>> THEN Raised("IndexError")
    ELSE Returned(Head(commit.author_name))

transform_commits_list_to_common_format(commits) ==
    IF \E i \in 1..Len(commits) : CommitName(commits[i]).raised # ""
    THEN Raised("IndexError")
    ELSE Returned([i \in 1..Len(commits) |->
                     [name |-> The(CommitName(commits[i]).value),
                      sha |-> commits[i].id,
                      url |-> commits[i].url,
                      message |-> commits[i].message]])

FormatPushReads == {"sender.username", "compare_url", "ref", "commits"}

format_push_event(payload) ==
    IF ~(FormatPushReads \subseteq DOMAIN payload) THEN Raised("ValidationError")
    ELSE LET user_name == payload["sender.username"]
             compare_url == payload["compare_url"]
             branch_name == Replace(payload["ref"], RefsHeads, <<>>)
             commits_data == transform_commits_list_to_common_format(payload["commits"])
         IN  IF commits_data.raised # "" THEN Raised(commits_data.raised)
             ELSE Returned(get_push_commits_event_message(
                               user_name, compare_url, branch_name,
                               The(commits_data.value)))

FormatNewBranchReads == {"ref", "repository.html_url", "sender.username"}

format_new_branch_event(payload) ==
    IF ~(FormatNewBranchReads \subseteq DOMAIN payload) THEN Raised("ValidationError")
    ELSE LET branch_name == payload["ref"]
             url == [repo_url |-> payload["repository.html_url"], path |-> "/src/",
                     branch_name |-> branch_name]
         IN  Returned(get_create_branch_event_message(
                          payload["sender.username"], url, branch_name))

(* The paths format_pull_request_event tames, given what the payload holds. *)
FormatPullRequestReads(payload, include_title) ==
    LET merged == Has(payload, "pull_request.merged") /\ payload["pull_request.merged"]
        action == IF merged THEN "merged"
                  ELSE IF Has(payload, "action") THEN payload["action"] ELSE ""
        assignee_truthy == /\ Has(payload, "action") /\ payload["action"] # ""
                           /\ Has(payload, "pull_request.assignee.login")
    IN  {"pull_request.merged"}
        \cup (IF merged THEN {"pull_request.merged_by.username"}
              ELSE {"pull_request.user.username", "action"})
        \cup {"pull_request.html_url", "pull_request.number"}
        \cup (IF action # "edited"
              THEN {"pull_request.head_branch", "pull_request.base_branch"} ELSE {})
        \cup (IF include_title THEN {"pull_request.title"} ELSE {})
        \cup (IF assignee_truthy THEN {"pull_request.assignee.login"} ELSE {})

format_pull_request_event(payload, include_title) ==
    IF ~(FormatPullRequestReads(payload, include_title) \subseteq DOMAIN payload)
    THEN Raised("ValidationError")
    ELSE LET merged == payload["pull_request.merged"]
             user_name == IF merged THEN payload["pull_request.merged_by.username"]
                          ELSE payload["pull_request.user.username"]
             action == IF merged THEN "merged" ELSE payload["action"]
             url == payload["pull_request.html_url"]
             number == payload["pull_request.number"]
             target_branch == IF action # "edited"
                              THEN Some(payload["pull_request.head_branch"]) ELSE None
             base_branch == IF action # "edited"
                            THEN Some(payload["pull_request.base_branch"]) ELSE None
             title == IF include_title THEN Some(payload["pull_request.title"]) ELSE None
             stringified_assignee ==
                 IF /\ Has(payload, "action") /\ payload["action"] # ""
                    /\ Has(payload, "pull_request.assignee.login")
                 THEN Some(payload["pull_request.assignee.login"]) ELSE None
         IN  Returned(get_pull_request_event_message(
                          user_name, action, url, Some(number), target_branch,
                          base_branch, None, stringified_assignee, "PR", title))

FormatIssuesReads(payload, include_title) ==
    {"issue.number", "action", "sender.login", "repository.html_url", "issue.body"}
    \cup (IF include_title THEN {"issue.title"} ELSE {})

format_issues_event(payload, include_title) ==
    IF ~(FormatIssuesReads(payload, include_title) \subseteq DOMAIN payload)
    THEN Raised("ValidationError")
    ELSE LET issue_nr == payload["issue.number"]
             stringified_assignee ==
                 IF Has(payload, "issue.assignee.login")
                 THEN Some(payload["issue.assignee.login"]) ELSE None
             action == payload["action"]
         IN  Returned(get_issue_event_message(
                          payload["sender.login"],
                          payload["action"],
                          get_issue_url(payload["repository.html_url"], issue_nr),
                          Some(issue_nr),
                          Some(payload["issue.body"]),
                          stringified_assignee,
                          IF include_title THEN Some(payload["issue.title"]) ELSE None,
                          IF action = "assigned" THEN stringified_assignee ELSE None))

FormatIssueCommentReads(payload, include_title) ==
    {"action", "comment.html_url", "sender.login", "repository.html_url",
     "issue.number", "comment.body"}
    \cup (IF include_title THEN {"issue.title"} ELSE {})

format_issue_comment_event(payload, include_title) ==
    IF ~(FormatIssueCommentReads(payload, include_title) \subseteq DOMAIN payload)
    THEN Raised("ValidationError")
    ELSE LET action0 == payload["action"]
             action1 == IF action0 = "created" THEN "[commented]"
                        ELSE action0 \o " a [comment]"
             action == action1 \o "(" \o payload["comment.html_url"] \o ") on"
         IN  Returned(get_issue_event_message(
                          payload["sender.login"],
                          action,
                          get_issue_url(payload["repository.html_url"],
                                        payload["issue.number"]),
                          Some(payload["issue.number"]),
                          Some(payload["comment.body"]),
                          None,
                          IF include_title THEN Some(payload["issue.title"]) ELSE None,
                          None))

FormatReleaseReads ==
    {"release.author.username", "action", "release.tag_name", "release.name",
     "repository.html_url"}

format_release_event(payload, include_title) ==
    IF ~(FormatReleaseReads \subseteq DOMAIN payload) THEN Raised("ValidationError")
    ELSE Returned(get_release_event_message(
                      payload["release.author.username"], payload["action"],
                      payload["release.tag_name"], payload["release.name"],
                      payload["repository.html_url"]))

-----------------------------------------------------------------------------
(* view.py: event handlers.  A handler's result records the exception it
   raised ("" if it returned), the returned pair (topic_name, body), the
   functions it called, in order, and the payload paths it read. *)

HandlerReturned(topic_name, body, calls, reads) ==
    [raised |-> "", topic_name |-> topic_name, body |-> body,
     calls |-> calls, reads |-> reads]

HandlerRaised(e, calls, reads) ==
    [raised |-> e, topic_name |-> None, body |-> None, calls |-> calls, reads |-> reads]

Helper(payload, branches, user_specified_topic, repo_, event_type_, format_pull_request_event_) ==
    [payload |-> payload, branches |-> branches,
     user_specified_topic |-> user_specified_topic, repo |-> repo_,
     event_type |-> event_type_,
     format_pull_request_event |-> format_pull_request_event_]

(* helper.format_pull_request_event(...): the formatter injected by the caller. *)
CallFormatPullRequestEvent(h, payload, include_title) ==
    CASE h.format_pull_request_event = "format_pull_request_event" ->
             format_pull_request_event(payload, include_title)

(* Mutant: the body is formatted before the allow-list is asked. *)
handle_push_event_format_first(h) ==
    IF ~Has(h.payload, "ref") THEN HandlerRaised("ValidationError", <<>>, {"ref"})
    ELSE
    LET branch == Replace(h.payload["ref"], RefsHeads, <<>>)
        body == format_push_event(h.payload)
        calls == <<"format_push_event", "is_branch_name_notifiable">>
        reads == {"ref"} \cup FormatPushReads
    IN  IF body.raised # "" THEN HandlerRaised(body.raised, <<"format_push_event">>, reads)
        ELSE IF ~is_branch_name_notifiable(branch, h.branches)
        THEN HandlerReturned(None, None, calls, reads)
        ELSE HandlerReturned(Some(TOPIC_WITH_BRANCH_TEMPLATE(h.repo, branch)),
                             body.value, calls, reads)

(* Mutant: an excluded branch still gets its topic, without a body. *)
handle_push_event_topic_only(h) ==
    IF ~Has(h.payload, "ref") THEN HandlerRaised("ValidationError", <<>>, {"ref"})
    ELSE
    LET branch == Replace(h.payload["ref"], RefsHeads, <<>>)
        topic_name == Some(TOPIC_WITH_BRANCH_TEMPLATE(h.repo, branch))
    IN  IF ~is_branch_name_notifiable(branch, h.branches)
        THEN HandlerReturned(topic_name, None, <<"is_branch_name_notifiable">>, {"ref"})
        ELSE
        LET body == format_push_event(h.payload)
            calls == <<"is_branch_name_notifiable", "format_push_event">>
            reads == {"ref"} \cup FormatPushReads
        IN  IF body.raised # "" THEN HandlerRaised(body.raised, calls, reads)
            ELSE HandlerReturned(topic_name, body.value, calls, reads)

handle_push_event(h) ==
    IF ~Has(h.payload, "ref") THEN HandlerRaised("ValidationError", <<>>, {"ref"})
    ELSE
    LET branch == Replace(h.payload["ref"], RefsHeads, <<>>)
    IN  IF ~is_branch_name_notifiable(branch, h.branches)
        THEN HandlerReturned(None, None, <<"is_branch_name_notifiable">>, {"ref"})
        ELSE
        LET body == format_push_event(h.payload)
            calls == <<"is_branch_name_notifiable", "format_push_event">>
            reads == {"ref"} \cup FormatPushReads
        IN  IF body.raised # "" THEN HandlerRaised(body.raised, calls, reads)
            ELSE HandlerReturned(Some(TOPIC_WITH_BRANCH_TEMPLATE(h.repo, branch)),
                                 body.value, calls, reads)

handle_create_event(h) ==
    LET body == format_new_branch_event(h.payload)
        calls == <<"format_new_branch_event">>
        reads == FormatNewBranchReads \cup {"ref"}
    IN  IF body.raised # "" THEN HandlerRaised(body.raised, calls, reads)
        ELSE HandlerReturned(Some(TOPIC_WITH_BRANCH_TEMPLATE(h.repo, h.payload["ref"])),
                             body.value, calls, reads)

handle_pull_request_event(h) ==
    LET include_title == h.user_specified_topic # None
        body == CallFormatPullRequestEvent(h, h.payload, include_title)
        calls == <<"helper.format_pull_request_event">>
        reads == FormatPullRequestReads(h.payload, include_title)
                 \cup {"pull_request.id", "pull_request.title"}
    IN  IF body.raised # "" THEN HandlerRaised(body.raised, calls, reads)
        ELSE IF ~({"pull_request.id", "pull_request.title"} \subseteq DOMAIN h.payload)
        THEN HandlerRaised("ValidationError", calls, reads)
        ELSE HandlerReturned(
                 Some(TOPIC_WITH_PR_OR_ISSUE_INFO_TEMPLATE(
                          h.repo, "PR", h.payload["pull_request.id"],
                          h.payload["pull_request.title"])),
                 body.value, calls, reads)

(* Mutant: include_title is true when the caller gave NO topic override. *)
handle_issues_event_inverted_title(h) ==
    LET include_title == h.user_specified_topic = None
        body == format_issues_event(h.payload, include_title)
        calls == <<"format_issues_event">>
        reads == FormatIssuesReads(h.payload, include_title)
                 \cup {"issue.number", "issue.title"}
    IN  IF body.raised # "" THEN HandlerRaised(body.raised, calls, reads)
        ELSE IF ~({"issue.number", "issue.title"} \subseteq DOMAIN h.payload)
        THEN HandlerRaised("ValidationError", calls, reads)
        ELSE HandlerReturned(
                 Some(TOPIC_WITH_PR_OR_ISSUE_INFO_TEMPLATE(
                          h.repo, "issue", h.payload["issue.number"],
                          h.payload["issue.title"])),
                 body.value, calls, reads)

handle_issues_event(h) ==
    LET include_title == h.user_specified_topic # None
        body == format_issues_event(h.payload, include_title)
        calls == <<"format_issues_event">>
        reads == FormatIssuesReads(h.payload, include_title)
                 \cup {"issue.number", "issue.title"}
    IN  IF body.raised # "" THEN HandlerRaised(body.raised, calls, reads)
        ELSE IF ~({"issue.number", "issue.title"} \subseteq DOMAIN h.payload)
        THEN HandlerRaised("ValidationError", calls, reads)
        ELSE HandlerReturned(
                 Some(TOPIC_WITH_PR_OR_ISSUE_INFO_TEMPLATE(
                          h.repo, "issue", h.payload["issue.number"],
                          h.payload["issue.title"])),
                 body.value, calls, reads)

(* The body of the pull_request_comment branch, lines 226-241. *)
PullRequestCommentReads ==
    {"action", "comment.html_url", "sender.login", "issue.html_url", "issue.number",
     "comment.body", "issue.title"}

(* Mutant: the pull-request comment is rendered without the title. *)
PullRequestCommentBody_no_title(payload) ==
    IF ~(PullRequestCommentReads \subseteq DOMAIN payload) THEN Raised("ValidationError")
    ELSE LET action == payload["action"]
             action_text0 == IF action = "created" THEN "[commented]"
                             ELSE action \o " a [comment]"
             action_text == action_text0 \o "(" \o payload["comment.html_url"] \o ") on"
         IN  Returned(get_pull_request_event_message(
                          payload["sender.login"], action_text,
                          payload["issue.html_url"], Some(payload["issue.number"]),
                          None, None, Some(payload["comment.body"]), None, "PR",
                          None))

PullRequestCommentBody(payload) ==
    IF ~(PullRequestCommentReads \subseteq DOMAIN payload) THEN Raised("ValidationError")
    ELSE LET action == payload["action"]
             action_text0 == IF action = "created" THEN "[commented]"
                             ELSE action \o " a [comment]"
             action_text == action_text0 \o "(" \o payload["comment.html_url"] \o ") on"
         IN  Returned(get_pull_request_event_message(
                          payload["sender.login"], action_text,
                          payload["issue.html_url"], Some(payload["issue.number"]),
                          None, None, Some(payload["comment.body"]), None, "PR",
                          Some(payload["issue.title"])))

IssueCommentTopicReads == {"repository.name", "issue.number", "issue.title"}

handle_issue_comment_event(h) ==
    LET is_pr == h.event_type = "pull_request_comment"
        include_title == h.user_specified_topic # None
        body == IF is_pr THEN PullRequestCommentBody(h.payload)
                ELSE format_issue_comment_event(h.payload, include_title)
        topic_type == IF is_pr THEN "PR" ELSE "issue"
        calls == IF is_pr THEN <<"get_pull_request_event_message">>
                 ELSE <<"format_issue_comment_event">>
        reads == (IF is_pr THEN PullRequestCommentReads
                  ELSE FormatIssueCommentReads(h.payload, include_title))
                 \cup IssueCommentTopicReads
    IN  IF body.raised # "" THEN HandlerRaised(body.raised, calls, reads)
        ELSE IF ~(IssueCommentTopicReads \subseteq DOMAIN h.payload)
        THEN HandlerRaised("ValidationError", calls, reads)
        ELSE HandlerReturned(
                 Some(TOPIC_WITH_PR_OR_ISSUE_INFO_TEMPLATE(
                          h.payload["repository.name"], topic_type,
                          h.payload["issue.number"], h.payload["issue.title"])),
                 body.value, calls, reads)

handle_release_event(h) ==
    LET body == format_release_event(h.payload, h.user_specified_topic # None)
        calls == <<"format_release_event">>
        reads == FormatReleaseReads
    IN  IF body.raised # "" THEN HandlerRaised(body.raised, calls, reads)
        ELSE HandlerReturned(
                 Some(TOPIC_WITH_RELEASE_TEMPLATE(
                          h.repo, h.payload["release.tag_name"],
                          h.payload["release.name"])),
                 body.value, calls, reads)

ALL_EVENT_TYPES ==
    {"push", "create", "pull_request", "issues", "issue_comment", "release"}

(* Mutant: an event kind that is not in the table gets a default handler. *)
GOGS_EVENT_FUNCTION_MAPPER_get_with_default(ev) ==
    CASE ev = "push" -> Some("handle_push_event")
      [] ev = "create" -> Some("handle_create_event")
      [] ev = "pull_request" -> Some("handle_pull_request_event")
      [] ev = "issues" -> Some("handle_issues_event")
      [] ev = "issue_comment" -> Some("handle_issue_comment_event")
      [] OTHER -> Some("handle_release_event")

(* GOGS_EVENT_FUNCTION_MAPPER.get(event): the handler's name, or None. *)
GOGS_EVENT_FUNCTION_MAPPER_get(ev) ==
    CASE ev = "push" -> Some("handle_push_event")
      [] ev = "create" -> Some("handle_create_event")
      [] ev = "pull_request" -> Some("handle_pull_request_event")
      [] ev = "issues" -> Some("handle_issues_event")
      [] ev = "issue_comment" -> Some("handle_issue_comment_event")
      [] ev = "release" -> Some("handle_release_event")
      [] OTHER -> None

(* handler(helper) *)
CallHandler(name, h) ==
    CASE name = "handle_push_event" -> handle_push_event(h)
      [] name = "handle_create_event" -> handle_create_event(h)
      [] name = "handle_pull_request_event" -> handle_pull_request_event(h)
      [] name = "handle_issues_event" -> handle_issues_event(h)
      [] name = "handle_issue_comment_event" -> handle_issue_comment_event(h)
      [] name = "handle_release_event" -> handle_release_event(h)

-----------------------------------------------------------------------------
(* view.py: gogs_webhook_main *)

(* The rendering that is the empty string. *)
EmptyString == [template |-> ""]

(* Python truthiness of an Optional[str]: neither None nor "". *)
Truthy(o) == o # None /\ The(o) # EmptyString

(* Mutant: the default event type is the pull-request comment marker. *)
DefaultEventType_pull_request_comment == "pull_request_comment"

(* Line 326: the event type used when the x-gitea-event-type header is absent. *)
DefaultEventType == "default_event_type"

(* Mutant: the repo is read from another path of the payload. *)
ExtractRepoName_html_url(payload) ==
    IF Has(payload, "repository.html_url") THEN Returned(payload["repository.html_url"])
    ELSE Raised("ValidationError")

(* Line 319: repo = payload["repository"]["name"].tame(check_string) *)
ExtractRepoName(payload) ==
    IF Has(payload, "repository.name") THEN Returned(payload["repository.name"])
    ELSE Raised("ValidationError")

(* Mutant: the message is sent, but control falls through to the raise. *)
DispatchOutcome_send_then_raise(ev, topic_name, body) ==
    IF Truthy(topic_name) /\ Truthy(body)
    THEN [send |-> TRUE, response |-> "UnsupportedWebhookEventTypeError"]
    ELSE IF ev = "push"
    THEN [send |-> FALSE, response |-> "json_success"]
    ELSE [send |-> FALSE, response |-> "UnsupportedWebhookEventTypeError"]

(* Mutant: an empty pair is a silent success whatever the event kind. *)
DispatchOutcome_always_silent(ev, topic_name, body) ==
    IF Truthy(topic_name) /\ Truthy(body)
    THEN [send |-> TRUE, response |-> "json_success"]
    ELSE [send |-> FALSE, response |-> "json_success"]

(* Lines 339-345: what the dispatcher does with the pair a handler returned. *)
DispatchOutcome(ev, topic_name, body) ==
    IF Truthy(topic_name) /\ Truthy(body)
    THEN [send |-> TRUE, response |-> "json_success"]
    ELSE IF ev = "push"
    THEN [send |-> FALSE, response |-> "json_success"]
    ELSE [send |-> FALSE, response |-> "UnsupportedWebhookEventTypeError"]

-----------------------------------------------------------------------------
(* The requests: payloads, headers, allow-lists and topic overrides *)

EmptyFcn == [x \in {} |-> x]

Drop(payload, path) == [x \in DOMAIN payload \ {path} |-> payload[x]]

Main == <<"main">>
Dev == <<"dev">>

(* A commit object; author.name is given as the list of its words.  Commit
   objects always hold their five paths here. *)
Commit(username, name) ==
    [author_username |-> username, author_name |-> name, id |-> "abc123",
     url |-> "http://h/gogs-repo/commit/abc123", message |-> "fix bug"]

CommitLists ==
    { <<>>,
      <<Commit("alice", <<"Alice", "A">>), Commit("", <<"Bob", "B">>)>>,
      <<Commit("", <<>>)>> }

BasePayload ==
    ("repository.name" :> "gogs-repo") @@ ("repository.html_url" :> "http://h/gogs-repo")
    @@ ("sender.username" :> "john") @@ ("sender.login" :> "john")

PushPayload(ref, commits) ==
    BasePayload @@ ("ref" :> ref) @@ ("compare_url" :> "http://h/compare")
    @@ ("commits" :> commits)

PullRequestPayload(merged, action, has_assignee) ==
    BasePayload @@ ("action" :> action)
    @@ ("pull_request.merged" :> merged)
    @@ ("pull_request.merged_by.username" :> "bob")
    @@ ("pull_request.user.username" :> "john")
    @@ ("pull_request.html_url" :> "http://h/gogs-repo/pulls/1")
    @@ ("pull_request.number" :> 1)
    @@ ("pull_request.id" :> 1)
    @@ ("pull_request.head_branch" :> "feature")
    @@ ("pull_request.base_branch" :> "master")
    @@ ("pull_request.title" :> "Title")
    @@ (IF has_assignee THEN ("pull_request.assignee.login" :> "carol") ELSE EmptyFcn)

IssuePayload(action, has_assignee) ==
    BasePayload @@ ("action" :> action)
    @@ ("issue.number" :> 3)
    @@ ("issue.body" :> "Issue text")
    @@ ("issue.title" :> "Title")
    @@ ("issue.html_url" :> "http://h/gogs-repo/issues/3")
    @@ (IF has_assignee THEN ("issue.assignee.login" :> "carol") ELSE EmptyFcn)

IssueCommentPayload(action) ==
    IssuePayload(action, FALSE)
    @@ ("comment.html_url" :> "http://h/c") @@ ("comment.body" :> "Comment text")

ReleasePayload ==
    BasePayload @@ ("action" :> "published")
    @@ ("release.author.username" :> "john")
    @@ ("release.tag_name" :> "v1.4")
    @@ ("release.name" :> "Title")

(* Well-formed payloads of each kind. *)
FullPayloads ==
    {PushPayload(ref, commits) : ref \in Refs, commits \in CommitLists}
    \cup {PullRequestPayload(merged, action, has_assignee) :
              merged \in BOOLEAN, action \in {"opened", "edited"},
              has_assignee \in BOOLEAN}
    \cup {IssuePayload(action, has_assignee) :
              action \in {"opened", "assigned"}, has_assignee \in BOOLEAN}
    \cup {IssueCommentPayload(action) : action \in {"created", "edited"}}
    \cup {ReleasePayload}

(* Payloads that lack one path: one well-formed payload of each kind with each
   of its paths dropped in turn. *)
BrokenPayloads ==
    UNION { {Drop(payload, path) : path \in DOMAIN payload} :
            payload \in { PushPayload(RefsHeads \o Main,
                                      <<Commit("alice", <<"Alice", "A">>)>>),
                          PullRequestPayload(FALSE, "opened", TRUE),
                          PullRequestPayload(TRUE, "opened", FALSE),
                          IssuePayload("assigned", TRUE),
                          IssueCommentPayload("created"),
                          ReleasePayload } }

Payloads == FullPayloads \cup BrokenPayloads

EventHeaderValues == ALL_EVENT_TYPES \cup {"unknown_event"}

EventTypeHeaderValues == {"pull_request_comment", "issue_comment"}

Headers ==
    { [name \in (IF ev # None THEN {"X-Gogs-Event"} ELSE {})
                \cup (IF et # None THEN {"x-gitea-event-type"} ELSE {})
        |-> IF name = "X-Gogs-Event" THEN The(ev) ELSE The(et)] :
      ev \in {None} \cup {Some(v) : v \in EventHeaderValues},
      et \in {None} \cup {Some(v) : v \in EventTypeHeaderValues} }

BranchLists == {None, Some(<<Main>>), Some(<<Dev, Main \o Main>>)}

TopicOverrides == {None, Some("my topic")}

Requests ==
    [headers : Headers, payload : Payloads, branches : BranchLists,
     user_specified_topic : TopicOverrides]

NoRequest ==
    [headers |-> EmptyFcn, payload |-> EmptyFcn, branches |-> None,
     user_specified_topic |-> None]

NoResult == HandlerReturned(None, None, <<>>, {})

-----------------------------------------------------------------------------
(* The state machine *)

Init ==
    /\ pc = "idle"
    /\ request = NoRequest
    /\ repo = None
    /\ event = None
    /\ event_type = None
    /\ helper = None
    /\ handler = None
    /\ result = NoResult
    /\ sent = <<>>
    /\ response = ""

(* api_gogs_webhook: a request arrives and gogs_webhook_main is entered. *)
api_gogs_webhook ==
    /\ pc = "idle"
    /\ \E req \in Requests : request' = req
    /\ pc' = "L319"
    /\ repo' = None
    /\ event' = None
    /\ event_type' = None
    /\ helper' = None
    /\ handler' = None
    /\ result' = NoResult
    /\ sent' = <<>>
    /\ response' = ""

(* Line 319 *)
ExtractRepo ==
    /\ pc = "L319"
    /\ LET r == ExtractRepoName(request.payload)
       IN  IF r.raised # ""
           THEN /\ response' = r.raised
                /\ pc' = "done"
                /\ repo' = repo
           ELSE /\ repo' = r.value
                /\ pc' = "L320"
                /\ response' = response
    /\ UNCHANGED <<request, event, event_type, helper, handler, result, sent>>

(* Line 320 *)
ExtractEvent ==
    /\ pc = "L320"
    /\ LET r == validate_extract_webhook_http_header(request, "X-Gogs-Event")
       IN  IF r.raised # ""
           THEN /\ response' = r.raised
                /\ pc' = "done"
                /\ event' = event
           ELSE /\ event' = r.value
                /\ pc' = "L321"
                /\ response' = response
    /\ UNCHANGED <<request, repo, event_type, helper, handler, result, sent>>

(* Lines 321-326: try / except MissingHTTPEventHeaderError *)
ExtractEventType ==
    /\ pc = "L321"
    /\ LET r == validate_extract_webhook_http_header(request, "x-gitea-event-type")
       IN  IF r.raised = "MissingHTTPEventHeaderError"
           THEN event_type' = Some(DefaultEventType)
           ELSE event_type' = r.value
    /\ pc' = "L327"
    /\ UNCHANGED <<request, repo, event, helper, handler, result, sent, response>>

(* Lines 327-334 *)
BuildHelper ==
    /\ pc = "L327"
    /\ helper' = Some(Helper(request.payload, request.branches,
                             request.user_specified_topic, The(repo),
                             The(event_type), "format_pull_request_event"))
    /\ pc' = "L336"
    /\ UNCHANGED <<request, repo, event, event_type, handler, result, sent, response>>

(* Lines 336-337 and 346-347: look the handler up; an unknown event raises. *)
LookupHandler ==
    /\ pc = "L336"
    /\ handler' = GOGS_EVENT_FUNCTION_MAPPER_get(The(event))
    /\ IF handler' # None
       THEN /\ pc' = "L338"
            /\ response' = response
       ELSE /\ pc' = "done"
            /\ response' = "UnsupportedWebhookEventTypeError"
    /\ UNCHANGED <<request, repo, event, event_type, helper, result, sent>>

(* Line 338: topic_name, body = handler(helper); an exception propagates. *)
InvokeHandler ==
    /\ pc = "L338"
    /\ result' = CallHandler(The(handler), The(helper))
    /\ IF result'.raised # ""
       THEN /\ pc' = "done"
            /\ response' = result'.raised
       ELSE /\ pc' = "L339"
            /\ response' = response
    /\ UNCHANGED <<request, repo, event, event_type, helper, handler, sent>>

(* Lines 339-345 *)
Dispatch ==
    /\ pc = "L339"
    /\ LET o == DispatchOutcome(The(event), result.topic_name, result.body)
       IN  /\ sent' = IF o.send
                      THEN Append(sent, [topic_name |-> The(result.topic_name),
                                         body |-> The(result.body),
                                         event |-> The(event)])
                      ELSE sent
           /\ response' = o.response
    /\ pc' = "done"
    /\ UNCHANGED <<request, repo, event, event_type, helper, handler, result>>

(* The response (or the exception) leaves gogs_webhook_main; nothing of the
   request is kept. *)
Return ==
    /\ pc = "done"
    /\ pc' = "idle"
    /\ request' = NoRequest
    /\ repo' = None
    /\ event' = None
    /\ event_type' = None
    /\ helper' = None
    /\ handler' = None
    /\ result' = NoResult
    /\ sent' = <<>>
    /\ response' = ""

Next ==
    \/ api_gogs_webhook
    \/ ExtractRepo
    \/ ExtractEvent
    \/ ExtractEventType
    \/ BuildHelper
    \/ LookupHandler
    \/ InvokeHandler
    \/ Dispatch
    \/ Return

Spec == Init /\ [][Next]_vars

-----------------------------------------------------------------------------
(* The dispatcher alone, lines 339-345, over every pair the handlers' declared
   return type tuple[str | None, str | None] allows: the handler has just
   returned (pc = "L339") for a known event kind. *)

SampleRenderings == {[template |-> "t1"], [template |-> "t2"]}

ReturnablePairs ==
    LET values == {None, Some(EmptyString)} \cup {Some(r) : r \in SampleRenderings}
    IN  values \X values

InitDispatch ==
    /\ pc = "L339"
    /\ \E ev \in ALL_EVENT_TYPES, pair \in ReturnablePairs :
          /\ request = [headers |-> ("X-Gogs-Event" :> ev), payload |-> BasePayload,
                        branches |-> None, user_specified_topic |-> None]
          /\ event = Some(ev)
          /\ handler = GOGS_EVENT_FUNCTION_MAPPER_get(ev)
          /\ result = HandlerReturned(pair[1], pair[2], <<>>, {})
    /\ repo = Some(BasePayload["repository.name"])
    /\ event_type = Some(DefaultEventType)
    /\ helper = Some(Helper(BasePayload, None, None, The(repo), The(event_type),
                            "format_pull_request_event"))
    /\ sent = <<>>
    /\ response = ""

NextDispatch == Dispatch

SpecDispatch == InitDispatch /\ [][NextDispatch]_vars

-----------------------------------------------------------------------------
(* Properties *)

Errors == {"ValidationError", "IndexError", "MissingHTTPEventHeaderError",
           "UnsupportedWebhookEventTypeError"}

(* handler(helper) has been called for the request in flight; result is what
   it did. *)
HandlerInvoked == pc \in {"L339", "done"} /\ handler # None

HandlerReturnedPair == HandlerInvoked /\ result.raised = ""

(* The branch handle_push_event computes from the request's ref is rejected by
   the allow-list. *)
PushBranchExcluded ==
    /\ event = Some("push")
    /\ Has(request.payload, "ref")
    /\ ~is_branch_name_notifiable(Replace(request.payload["ref"], RefsHeads, <<>>),
                                  request.branches)

(* C1: every request ends in exactly one of: one message sent and success;
   no message and success, only for a push whose branch the allow-list
   excluded; no message and an error.  No message is sent before the
   request ends, nor on a request that ends in an error, and never two. *)
C1_OneOutcome ==
    /\ Len(sent) <= 1
    /\ pc # "done" => sent = <<>> /\ response = ""
    /\ pc = "done" =>
          \/ response = "json_success" /\ Len(sent) = 1
          \/ response = "json_success" /\ sent = <<>> /\ PushBranchExcluded
          \/ response \in Errors /\ sent = <<>>

C1_Witness ==
    pc = "done" /\ response = "json_success" /\ sent = <<>> /\ PushBranchExcluded

UnknownEventRequest ==
    /\ "X-Gogs-Event" \in DOMAIN request.headers
    /\ request.headers["X-Gogs-Event"] \notin ALL_EVENT_TYPES

(* C2 as stated: a request whose event kind is none of the six known ones
   ends, for every payload, in UnsupportedWebhookEventTypeError, with no
   handler invoked and no message sent. *)
C2_UnknownEventAnyPayload ==
    UnknownEventRequest =>
        /\ handler = None /\ result = NoResult /\ sent = <<>>
        /\ pc = "done" => response = "UnsupportedWebhookEventTypeError"

(* C2 amended: a request whose event kind is none of the six known ones and
   whose payload holds repository.name ends in
   UnsupportedWebhookEventTypeError; for every payload no handler is invoked
   and no message is sent. *)
C2_UnknownEventWithRepoName ==
    UnknownEventRequest =>
        /\ handler = None /\ result = NoResult /\ sent = <<>>
        /\ pc = "done" /\ Has(request.payload, "repository.name")
              => response = "UnsupportedWebhookEventTypeError"

C2_Witness ==
    /\ UnknownEventRequest /\ pc = "done"
    /\ response = "UnsupportedWebhookEventTypeError"

(* C3: when handle_push_event is called for a push whose branch the
   allow-list excludes, it returns (None, None) having only read the ref and
   asked the allow-list, without calling format_push_event; no message is
   sent and the response is success.  With a None allow-list
   handle_push_event never returns (None, None). *)
C3_ExcludedPushIsSilent ==
    /\ HandlerInvoked /\ PushBranchExcluded =>
          /\ result.raised = "" /\ result.topic_name = None /\ result.body = None
          /\ result.calls = <<"is_branch_name_notifiable">>
          /\ result.reads = {"ref"}
          /\ sent = <<>>
          /\ pc = "done" => response = "json_success"
    /\ HandlerReturnedPair /\ event = Some("push") /\ request.branches = None =>
          result.topic_name # None /\ result.body # None

(* An excluded push whose payload holds nothing format_push_event needs
   besides the ref. *)
C3_Witness ==
    /\ pc = "done" /\ PushBranchExcluded /\ response = "json_success"
    /\ ~Has(request.payload, "compare_url")

(* C4: for a known event kind other than push, a handler result of
   (None, None) ends in UnsupportedWebhookEventTypeError with no message. *)
C4_NonPushNoneIsError ==
    /\ pc = "done" /\ event # Some("push")
    /\ result.topic_name = None /\ result.body = None
    => response = "UnsupportedWebhookEventTypeError" /\ sent = <<>>

C4_Witness ==
    /\ pc = "done" /\ event = Some("issues")
    /\ result.topic_name = None /\ result.body = None
    /\ response = "UnsupportedWebhookEventTypeError"

(* The handler that ran renders a title only on request: pull_request, issues,
   and issue_comment outside a pull-request discussion. *)
ConditionalTitleHandler ==
    \/ handler \in {Some("handle_pull_request_event"), Some("handle_issues_event")}
    \/ /\ handler = Some("handle_issue_comment_event")
       /\ event_type # Some("pull_request_comment")

PayloadTitle ==
    IF handler = Some("handle_pull_request_event")
    THEN request.payload["pull_request.title"]
    ELSE request.payload["issue.title"]

(* C5: for pull_request, issues and non-PR issue_comment events the body's
   title slot holds the payload's title when the caller gave a topic
   override, and is empty when the caller gave none. *)
C5_TitleIffTopicOverride ==
    HandlerReturnedPair /\ ConditionalTitleHandler =>
        The(result.body).title =
            IF request.user_specified_topic # None THEN Some(PayloadTitle) ELSE None

C5_Witness ==
    /\ HandlerReturnedPair /\ handler = Some("handle_issues_event")
    /\ request.user_specified_topic # None
    /\ The(result.body).title = Some("Title")

(* C6: an issue_comment whose event type is pull_request_comment gets a body
   of type "PR" that holds the issue's title whatever the topic override, a
   topic of type "PR", and the action text "[commented](url) on" for action
   "created" and "<action> a [comment](url) on" otherwise; any other event
   type gets the issue formatter and the types "issue". *)
C6_PullRequestComment ==
    HandlerReturnedPair /\ handler = Some("handle_issue_comment_event") =>
        LET body == The(result.body)
            topic == The(result.topic_name)
            action == request.payload["action"]
            url == request.payload["comment.html_url"]
        IN  IF event_type = Some("pull_request_comment")
            THEN /\ body.title = Some(request.payload["issue.title"])
                 /\ body.type = "PR"
                 /\ topic.type = "PR"
                 /\ action = "created" => body.action = "[commented](http://h/c) on"
                 /\ action # "created" =>
                        body.action = action \o " a [comment](" \o url \o ") on"
            ELSE /\ result.calls = <<"format_issue_comment_event">>
                 /\ body.type = "issue"
                 /\ topic.type = "issue"

C6_Witness ==
    /\ HandlerReturnedPair /\ handler = Some("handle_issue_comment_event")
    /\ event_type = Some("pull_request_comment")
    /\ request.user_specified_topic = None
    /\ The(result.body).title = Some("Title")
    /\ The(result.body).action = "edited a [comment](http://h/c) on"

(* C7: a handler that returns, returns both a topic and a body or neither. *)
C7_BothOrNeither ==
    HandlerReturnedPair => (result.topic_name = None <=> result.body = None)

C7_Witness ==
    /\ HandlerReturnedPair /\ handler = Some("handle_push_event")
    /\ result.topic_name = None /\ result.body = None

GiteaHeaderAbsent == "x-gitea-event-type" \notin DOMAIN request.headers

(* C8: a request without the x-gitea-event-type header never fails for that:
   the handler does exactly what it does when the header holds a value other
   than pull_request_comment, and MissingHTTPEventHeaderError ends a request
   only when the event-kind header is absent, which always fails. *)
C8_MissingEventTypeHeader ==
    /\ HandlerInvoked /\ GiteaHeaderAbsent =>
          \A v \in EventTypeHeaderValues \ {"pull_request_comment"} :
              result = CallHandler(The(handler), [The(helper) EXCEPT !.event_type = v])
    /\ pc = "done" /\ response = "MissingHTTPEventHeaderError" =>
          "X-Gogs-Event" \notin DOMAIN request.headers
    /\ pc = "done" /\ "X-Gogs-Event" \notin DOMAIN request.headers =>
          response \in {"MissingHTTPEventHeaderError", "ValidationError"}

C8_Witness ==
    /\ pc = "done" /\ GiteaHeaderAbsent /\ event = Some("issue_comment")
    /\ response = "json_success" /\ Len(sent) = 1
    /\ sent[1].body.type = "issue"

(* C9 as stated: the branch of a push, in the allow-list check, in the topic
   and in the body, is the ref without a leading refs/heads/ and otherwise
   unchanged. *)
C9_BranchIsRefWithoutPrefix ==
    HandlerReturnedPair /\ event = Some("push") =>
        LET branch == RemovePrefix(request.payload["ref"], RefsHeads)
        IN  /\ result.topic_name # None <=>
                   is_branch_name_notifiable(branch, request.branches)
            /\ result.topic_name # None =>
                   /\ The(result.topic_name).branch = branch
                   /\ The(result.body).branch_name = branch

(* C10: the repo in the topic of an issue_comment, read from the payload, is
   the repo the Helper holds. *)
C10_IssueCommentRepo ==
    HandlerReturnedPair /\ handler = Some("handle_issue_comment_event") =>
        The(result.topic_name).repo = The(helper).repo

C10_Witness ==
    /\ pc = "done" /\ handler = Some("handle_issue_comment_event")
    /\ Len(sent) = 1 /\ sent[1].topic_name.repo = "gogs-repo"

====
